---------------------------- MODULE Spec2Model ----------------------------
(***************************************************************************)
(* A model of src/src/util/performance.ts: the lifecycle and frame metrics *)
(* recorder (PerformanceUtils) and the per-resource timing wrapper         *)
(* (RequestPerformance), both running against the host's shared            *)
(* performance timeline.                                                   *)
(*                                                                         *)
(* Numbers.  A JavaScript number is an IEEE 754 binary64 value: sign,      *)
(* 53-bit significand and exponent, with the signed zeros, the subnormals, *)
(* the infinities and NaN.  +, -, * and / round to nearest, ties to even,  *)
(* as the language requires.  Frame timestamps are such numbers, in        *)
(* milliseconds.  Clock readings of the timeline (performance.now()) are   *)
(* whole milliseconds.                                                     *)
(*                                                                         *)
(* Timeline.  The host's entry buffer is kept as one listing per entry     *)
(* name, in the order getEntriesByName() returns it: every access the code *)
(* makes is by name (mark, measure, getEntriesByName, clearMarks,          *)
(* clearMeasures).  The semantics follow W3C User Timing / Performance     *)
(* Timeline: measure() uses the most recent mark of each name and throws   *)
(* when one is missing; getEntriesByName() returns the entries in order of *)
(* startTime.  The order among entries of different types with the same    *)
(* startTime is the host's, and any order is allowed here.                 *)
(*                                                                         *)
(* The module also models src/src/geo/lng_lat_bounds.ts (LngLatBounds):    *)
(* LngLat objects live in a heap under references, so that a bounds, its   *)
(* corner objects and the objects passed to it keep their identity.        *)
(* Coordinates are whole degrees.                                          *)
(***************************************************************************)
EXTENDS Integers, Sequences, FiniteSets, TLC

VARIABLES
    lastFrameTime,  \* performance.ts:17  module-level baseline, Null when unset
    frameTimes,     \* performance.ts:18  the FrameTimeSample
    log,            \* the host's performance timeline, by entry name
    now,            \* the host's clock (performance.now()), ms
    wrappers,       \* the RequestPerformance instances: state and _marks, and
                    \* (history) born, the clock reading at construction
    ret,            \* what the last call returned (or that it threw)
    lastOp,         \* the last call made: its name and a detail of it (see Op)
    stamps,         \* history: timestamps passed to frame() since the last reset
    heap,           \* the LngLat objects in existence, by reference (1, 2, ...)
    llb,            \* lng_lat_bounds.ts:22-23  a LngLatBounds: references _sw, _ne
    hist            \* history: the arguments extend() has taken into llb, each
                    \* with its corners' coordinates and references at the call

vars == <<lastFrameTime, frameTimes, log, now, wrappers, ret, lastOp, stamps,
          heap, llb, hist>>

\* ------------------------------------------------------------------ bounds

MaxFrames == 2      \* longest FrameTimeSample recorded in Spec
MaxSample == 3      \* longest FrameTimeSample recorded in SpecFrames, SpecSteady, SpecExtreme
MaxClock == 1       \* last clock reading
MaxMarks == 4       \* marks held by the timeline at a time (Spec)
MaxMeasures == 2    \* loadTime measure entries accumulated before a reset
MaxWrappers == 2    \* RequestPerformance instances
MaxExtends == 3      \* arguments extend() takes into one LngLatBounds
MaxObjects == 4      \* LngLat objects made by the constructor and the setters
MaxResources == 1   \* resource-timing entries the host adds per resource
MaxFinishes == 2    \* finish() calls made on one RequestPerformance instance

\* ----------------------------------------------------------------- numbers

\* A JavaScript number is an IEEE 754 binary64 value.  A finite one is
\* (-1)^neg * (hi * 2^27 + lo) * 2^exp with the significand below 2^53, exp
\* >= -1074, and the significand at least 2^52 unless exp = -1074 (zero and
\* the subnormals); zero keeps its sign.  Every operation rounds to nearest,
\* ties to even.  All intermediate integers stay below 2^31.
W == 134217728
SigBits == 53
EMin == -1074
EMax == 971

Pow2Table ==
    <<1, 2, 4, 8, 16, 32, 64, 128, 256, 512, 1024, 2048, 4096, 8192, 16384,
      32768, 65536, 131072, 262144, 524288, 1048576, 2097152, 4194304, 8388608,
      16777216, 33554432, 67108864, 134217728, 268435456, 536870912, 1073741824>>
Pow2(k) == Pow2Table[k + 1]

Fin(neg, hi, lo, exp) == [cls |-> "fin", neg |-> neg, hi |-> hi, lo |-> lo, exp |-> exp]
Zero(neg) == Fin(neg, 0, 0, EMin)
Inf(neg) == [cls |-> "inf", neg |-> neg, hi |-> 0, lo |-> 0, exp |-> 0]
NaN == [cls |-> "nan", neg |-> FALSE, hi |-> 0, lo |-> 0, exp |-> 0]
Infinity == Inf(FALSE)
IsNaN(a) == a.cls = "nan"
IsFinite(a) == a.cls = "fin"
IsZero(a) == a.cls = "fin" /\ a.hi = 0 /\ a.lo = 0

\* number of bits of x, 0 <= x < 2^31
BitLen2(x) == IF x >= 2 THEN 2 ELSE x
BitLen4(x) == IF x >= 4 THEN 2 + BitLen2(x \div 4) ELSE BitLen2(x)
BitLen8(x) == IF x >= 16 THEN 4 + BitLen4(x \div 16) ELSE BitLen4(x)
BitLen16(x) == IF x >= 256 THEN 8 + BitLen8(x \div 256) ELSE BitLen8(x)
BitLen31(x) == IF x >= 65536 THEN 16 + BitLen16(x \div 65536) ELSE BitLen16(x)
\* number of bits of the significand hi * 2^27 + lo
BitLen(hi, lo) == IF hi > 0 THEN 27 + BitLen31(hi) ELSE BitLen31(lo)

\* the pair (hi, lo) with lo brought into 0 .. 2^27 - 1, for -2^31 < lo < 2^31
Carried(hi, lo) == <<hi + lo \div W, lo % W>>

\* (hi, lo) * 2^k for 0 <= k, the result below 2^58
ShiftLeft(hi, lo, k) ==
    IF k >= 27 THEN <<lo * Pow2(k - 27), 0>>
    ELSE <<hi * Pow2(k) + lo \div Pow2(27 - k), (lo % Pow2(27 - k)) * Pow2(k)>>

\* r against half: -1 below, 0 equal, 1 above; rest is what lies below r
Against(r, half, rest) ==
    IF r < half THEN -1 ELSE IF r = half /\ rest = 0 THEN 0 ELSE 1

\* (hi, lo) = q * 2^k + r with 0 < k <= BitLen(hi, lo): <<q.hi, q.lo, c>>, c
\* being r against 2^(k-1)
ShiftRight(hi, lo, k) ==
    IF k < 27
    THEN <<hi \div Pow2(k), lo \div Pow2(k) + (hi % Pow2(k)) * Pow2(27 - k),
           Against(lo % Pow2(k), Pow2(k - 1), 0)>>
    ELSE IF k = 27
    THEN <<hi \div W, hi % W, Against(lo, Pow2(26), 0)>>
    ELSE <<(hi \div Pow2(k - 27)) \div W, (hi \div Pow2(k - 27)) % W,
           Against(hi % Pow2(k - 27), Pow2(k - 28), lo)>>

\* the finite number of significand m = <<hi, lo>> (53 bits, or fewer at EMin)
\* and exponent e, Infinity if e is out of range
Pack(neg, m, e) == IF e > EMax THEN Inf(neg) ELSE Fin(neg, m[1], m[2], e)

\* a rounded significand (hi, lo), lo possibly 2^27: the carry taken in
Renormal(neg, hi, lo, e) ==
    IF lo < W THEN Pack(neg, <<hi, lo>>, e)
    ELSE IF hi + 1 < Pow2(26) THEN Pack(neg, <<hi + 1, 0>>, e)
    ELSE Pack(neg, <<Pow2(25), 0>>, e + 1)

\* q = <<hi, lo, c>> as ShiftRight gives it, rounded to nearest, ties to even
RoundUp(neg, q, sticky, e) ==
    Renormal(neg, q[1],
             IF q[3] > 0 \/ (q[3] = 0 /\ (sticky \/ q[2] % 2 = 1))
             THEN q[2] + 1 ELSE q[2],
             e)

\* the significand of n bits shifted by sh places to the right (to the left
\* for sh < 0) and rounded
RoundShift(neg, hi, lo, exp, sticky, n, sh) ==
    IF sh <= 0 THEN Pack(neg, ShiftLeft(hi, lo, -sh), exp + sh)
    ELSE IF sh > n THEN Zero(neg)
    ELSE RoundUp(neg, ShiftRight(hi, lo, sh), sticky, exp + sh)

RoundBits(neg, hi, lo, exp, sticky, n) ==
    RoundShift(neg, hi, lo, exp, sticky, n,
               IF exp + n - SigBits < EMin THEN EMin - exp ELSE n - SigBits)

\* The number nearest (-1)^neg * ((hi * 2^27 + lo) + f) * 2^exp, where the
\* significand is below 2^58 and f is a fraction in [0, 1), nonzero exactly
\* when sticky.
RoundPack(neg, hi, lo, exp, sticky) ==
    IF hi = 0 /\ lo = 0 THEN Zero(neg)
    ELSE RoundBits(neg, hi, lo, exp, sticky, BitLen(hi, lo))

\* the number i, |i| < 2^31
FromInt(i) == RoundPack(i < 0, (IF i < 0 THEN -i ELSE i) \div W,
                        (IF i < 0 THEN -i ELSE i) % W, 0, FALSE)

NumNeg(a) == [a EXCEPT !.neg = IF a.cls = "nan" THEN FALSE ELSE ~a.neg]

\* |a| < |b| for finite a, b
MagLess(a, b) ==
    \/ a.exp < b.exp
    \/ a.exp = b.exp /\ (a.hi < b.hi \/ (a.hi = b.hi /\ a.lo < b.lo))

\* q with its last bit set unless exact
Jam(q, exact) == <<q[1], IF exact \/ q[2] % 2 = 1 THEN q[2] ELSE q[2] + 1>>
\* the d lowest bits of the significand B are zero
Exact(B, d) ==
    IF d < 27 THEN B[2] % Pow2(d) = 0
    ELSE B[2] = 0 /\ (d = 27 \/ B[1] % Pow2(d - 27) = 0)
\* the significand B shifted d places to the right, its last bit set if a
\* nonzero bit was shifted out
Jammed(B, d) ==
    IF d = 0 THEN B
    ELSE IF d > BitLen(B[1], B[2]) THEN <<0, 1>>
    ELSE Jam(ShiftRight(B[1], B[2], d), Exact(B, d))

\* (-1)^neg * (hi * 2^27 + lo) * 2^e rounded, for -2^27 < lo < 2^28
RoundCarried(neg, m, e) == RoundPack(neg, m[1], m[2], e, FALSE)

\* the sum of (-1)^an * A and (-1)^bn * B, significands below 2^56 in units
\* of 2^e
AddSig(an, bn, A, B, e) ==
    IF an = bn THEN RoundCarried(an, Carried(A[1] + B[1], A[2] + B[2]), e)
    ELSE IF A = B THEN Zero(FALSE)
    ELSE IF A[1] > B[1] \/ (A[1] = B[1] /\ A[2] > B[2])
    THEN RoundCarried(an, Carried(A[1] - B[1], A[2] - B[2]), e)
    ELSE RoundCarried(bn, Carried(B[1] - A[1], B[2] - A[2]), e)

\* a + b for finite nonzero a, b with a.exp >= b.exp: three more bits of each
\* significand are kept, b aligned to a
AddAligned(a, b) ==
    IF a.exp - b.exp > 55 THEN a
    ELSE AddSig(a.neg, b.neg, ShiftLeft(a.hi, a.lo, 3),
                Jammed(ShiftLeft(b.hi, b.lo, 3), a.exp - b.exp), a.exp - 3)

NumAdd(a, b) ==
    IF IsNaN(a) \/ IsNaN(b) THEN NaN
    ELSE IF a.cls = "inf"
    THEN (IF b.cls = "inf" /\ a.neg # b.neg THEN NaN ELSE a)
    ELSE IF b.cls = "inf" THEN b
    ELSE IF IsZero(a) THEN (IF IsZero(b) THEN Zero(a.neg /\ b.neg) ELSE b)
    ELSE IF IsZero(b) THEN a
    ELSE IF a.exp >= b.exp THEN AddAligned(a, b) ELSE AddAligned(b, a)
NumSub(a, b) == NumAdd(a, NumNeg(b))

\* a finite nonzero number with its significand brought up to 53 bits by k
\* places: <<hi, lo, exp>>, exp possibly below EMin
NormalBy(m, e) == <<m[1], m[2], e>>
Normal(a) ==
    NormalBy(ShiftLeft(a.hi, a.lo, SigBits - BitLen(a.hi, a.lo)),
             a.exp - (SigBits - BitLen(a.hi, a.lo)))

\* One step of the long division by y = (yh, yl), s = <<rh, rl, qh, ql, yh,
\* yl>>: the remainder r < y and the quotient q so far, with y.  The next four
\* quotient bits d = floor(16 r / y) are estimated from the high halves (est:
\* never too large, at most one too small) and corrected; the result is
\* <<16 r - d y, 16 q + d, y>>.
DivOut(r, qh, ql, yh, yl) ==
    <<r[1], r[2], qh * 16 + ql \div W, ql % W, yh, yl>>
DivFix(r, yh, yl, qh, ql) ==
    IF r[1] > yh \/ (r[1] = yh /\ r[2] >= yl)
    THEN DivOut(Carried(r[1] - yh, r[2] - yl), qh, ql + 1, yh, yl)
    ELSE DivOut(r, qh, ql, yh, yl)
DivEst(s, est) ==
    DivFix(Carried(s[1] * 16 - s[5] * est, s[2] * 16 - s[6] * est), s[5], s[6],
           s[3], s[4] * 16 + est)
DivStep == [s \in Seq(Nat) |-> DivEst(s, (s[1] * 16) \div (s[5] + 1))]
DivStep4(s) == DivStep[DivStep[DivStep[DivStep[s]]]]
DivStep14(s) == DivStep[DivStep[DivStep4(DivStep4(DivStep4(s)))]]

\* floor(x * 2^56 / y) for 53-bit significands x = (xh, xl) and y = (yh, yl):
\* <<q.hi, q.lo, inexact>>
QuotientOf(s) == <<s[3], s[4], s[1] # 0 \/ s[2] # 0>>
Quotient(xh, xl, yh, yl) ==
    QuotientOf(DivStep14(DivFix(<<xh, xl>>, yh, yl, 0, 0)))

DivRound(neg, q, e) == RoundPack(neg, q[1], q[2], e, q[3])
DivNormal(neg, x, y) ==
    DivRound(neg, Quotient(x[1], x[2], y[1], y[2]), x[3] - y[3] - 56)

NumDiv(a, b) ==
    IF IsNaN(a) \/ IsNaN(b) THEN NaN
    ELSE IF a.cls = "inf" THEN (IF b.cls = "inf" THEN NaN ELSE Inf(a.neg # b.neg))
    ELSE IF b.cls = "inf" THEN Zero(a.neg # b.neg)
    ELSE IF IsZero(b) THEN (IF IsZero(a) THEN NaN ELSE Inf(a.neg # b.neg))
    ELSE IF IsZero(a) THEN Zero(a.neg # b.neg)
    ELSE DivNormal(a.neg # b.neg, Normal(a), Normal(b))

\* the four 14-bit digits of a 53-bit significand, lowest first
Digits(x) ==
    <<x[2] % 16384, x[2] \div 16384 + (x[1] % 2) * 8192, (x[1] \div 2) % 16384,
      x[1] \div 32768>>
\* the digit products of u and v by weight, lowest first, each sum below 2^30
Columns(u, v) ==
    <<u[1] * v[1],
      u[1] * v[2] + u[2] * v[1],
      u[1] * v[3] + u[2] * v[2] + u[3] * v[1],
      u[1] * v[4] + u[2] * v[3] + u[3] * v[2] + u[4] * v[1],
      u[2] * v[4] + u[3] * v[3] + u[4] * v[2],
      u[3] * v[4] + u[4] * v[3],
      u[4] * v[4]>>
\* column k of p with the carry of the columns below it, k = 0 .. 6
Col0(p) == p[1]
Col1(p) == p[2] + Col0(p) \div 16384
Col2(p) == p[3] + Col1(p) \div 16384
Col3(p) == p[4] + Col2(p) \div 16384
Col4(p) == p[5] + Col3(p) \div 16384
Col5(p) == p[6] + Col4(p) \div 16384
Col6(p) == p[7] + Col5(p) \div 16384
\* the product p (105 or 106 bits) without its 49 lowest bits, rounded
MulRound(neg, p, e) ==
    RoundPack(neg,
              (Col5(p) % 16384) \div 64 + Col6(p) * 256,
              (Col3(p) % 16384) \div 128 + (Col4(p) % 16384) * 128
                 + (Col5(p) % 64) * 2097152,
              e + 49,
              Col0(p) % 16384 # 0 \/ Col1(p) % 16384 # 0 \/ Col2(p) % 16384 # 0
                 \/ Col3(p) % 128 # 0)
MulNormal(neg, x, y) ==
    MulRound(neg, Columns(Digits(x), Digits(y)), x[3] + y[3])

NumMul(a, b) ==
    IF IsNaN(a) \/ IsNaN(b) THEN NaN
    ELSE IF a.cls = "inf" \/ b.cls = "inf"
    THEN (IF IsZero(a) \/ IsZero(b) THEN NaN ELSE Inf(a.neg # b.neg))
    ELSE IF IsZero(a) \/ IsZero(b) THEN Zero(a.neg # b.neg)
    ELSE MulNormal(a.neg # b.neg, Normal(a), Normal(b))

\* n / d, the number the literal or the division gives
Num(n, d) == NumDiv(FromInt(n), FromInt(d))

\* a > b; false when either is NaN
NumGt(a, b) ==
    /\ ~IsNaN(a) /\ ~IsNaN(b)
    /\ ~(IsZero(a) /\ IsZero(b))
    /\ IF a.neg # b.neg THEN b.neg
       ELSE IF a.cls = "inf" \/ b.cls = "inf"
       THEN (IF a.neg THEN a.cls = "fin" /\ b.cls = "inf"
             ELSE a.cls = "inf" /\ b.cls = "fin")
       ELSE IF a.neg THEN MagLess(a, b) ELSE MagLess(b, a)

\* --------------------------------------------------------------- constants

minFramerateTarget == 60
\* a variant: the target written as the rounded literal 16.67
frameTimeTargetRounded == Num(1667, 100)
\* 1000 / minFramerateTarget
frameTimeTarget == NumDiv(FromInt(1000), FromInt(minFramerateTarget))

loadTimeKey == "loadTime"
fullLoadTimeKey == "fullLoadTime"

\* enum PerformanceMarkers, in declaration order
PerformanceMarkers == <<"create", "load", "fullLoad">>
Markers == {PerformanceMarkers[i] : i \in 1..Len(PerformanceMarkers)}

\* Resource identifiers (request.url): two unrelated ones, and one that is
\* another's identifier followed by #start.
Urls == {"a", "b", "a#start"}
\* [url, suffix].join('#')
Join(url, suffix) == url \o "#" \o suffix

Names == Markers \cup {loadTimeKey, fullLoadTimeKey} \cup Urls
            \cup {Join(u, s) : u \in Urls, s \in {"start", "end"}}

Null == [null |-> TRUE]

\* A call: its name, and n = the entries clearMetrics() removed, the instance
\* finish() or the constructor ran on, 0 otherwise.
Op(name, n) == [op |-> name, n |-> n]

\* ------------------------------------------------- the host's timing facility

Entry(type, name, start, dur) ==
    [entryType |-> type, name |-> name, startTime |-> start, duration |-> dur]

IsMark(e) == e.entryType = "mark"
IsMeasure(e) == e.entryType = "measure"
IsResource(e) == e.entryType = "resource"

MarksOf(L, name) == SelectSeq(L[name], IsMark)
HasMark(L, name) == Len(MarksOf(L, name)) > 0
\* The most recent occurrence of the mark.
LastMark(L, name) == MarksOf(L, name)[Len(MarksOf(L, name))]

\* e placed after the first p entries of s
InsertAt(s, p, e) == SubSeq(s, 1, p) \o <<e>> \o SubSeq(s, p + 1, Len(s))

\* The timeline keeps the entries of a name as getEntriesByName lists them: by
\* startTime.  A new entry follows the entries of its own type that start with
\* it; where it falls among entries of another type that start with it is the
\* host's choice (node lists marks, then measures, then resources).  The
\* listings the host may keep once e has been added to the listing s:
InsertByStart(e, s) ==
    {InsertAt(s, p, e) : p \in {q \in 0..Len(s) :
        /\ \A i \in 1..q : s[i].startTime <= e.startTime
        /\ \A i \in (q + 1)..Len(s) :
              \/ s[i].startTime > e.startTime
              \/ s[i].startTime = e.startTime /\ s[i].entryType # e.entryType}}

\* the timelines the host may hold once e has been added to L
Added(L, e) == {[L EXCEPT ![e.name] = s] : s \in InsertByStart(e, L[e.name])}

\* performance.mark(name) at clock reading t
PerfMark(L, name, t) == Added(L, Entry("mark", name, t, 0))

\* performance.measure(name, startMark, endMark) throws when a mark is missing
MeasureThrows(L, startMark, endMark) ==
    ~HasMark(L, startMark) \/ ~HasMark(L, endMark)

PerfMeasure(L, name, startMark, endMark) ==
    Added(L, Entry("measure", name, LastMark(L, startMark).startTime,
                   LastMark(L, endMark).startTime - LastMark(L, startMark).startTime))

\* performance.getEntriesByName(name)
GetEntriesByName(L, name) == L[name]

\* performance.clearMarks(name), performance.clearMeasures(name)
ClearMarks(L, name) ==
    [L EXCEPT ![name] = SelectSeq(@, LAMBDA e : ~IsMark(e))]
ClearMeasures(L, name) ==
    [L EXCEPT ![name] = SelectSeq(@, LAMBDA e : ~IsMeasure(e))]

NumMarks(L) ==
    LET RECURSIVE Count(_)
        Count(S) == IF S = {} THEN 0
                    ELSE LET x == CHOOSE y \in S : TRUE
                         IN  Len(MarksOf(L, x)) + Count(S \ {x})
    IN  Count(Names)

\* ---------------------------------------------------------- return values

Undefined == [kind |-> "undefined"]
Threw == [kind |-> "throw"]
Metrics(loadTime, fullLoadTime, fps, percentDroppedFrames, totalFrames) ==
    [kind |-> "metrics", loadTime |-> loadTime, fullLoadTime |-> fullLoadTime,
     fps |-> fps, percentDroppedFrames |-> percentDroppedFrames,
     totalFrames |-> totalFrames]
Entries(es) == [kind |-> "entries", entries |-> es]

\* ------------------------------------------------------ PerformanceUtils

\* a variant: the guard as a truthiness test, if (lastFrameTime), under which a
\* baseline of 0 counts as unset
HasBaselineTruthy(last) == last # Null /\ ~IsZero(last) /\ ~IsNaN(last)
\* lastFrameTime != null
HasBaseline(last) == last # Null

\* frame(timestamp): the FrameTimeSample after the call
FrameTimesAfter(last, fts, timestamp) ==
    IF HasBaseline(last)
    THEN Append(fts, NumSub(timestamp, last))
    ELSE fts

\* frameTimes.reduce((prev, curr) => prev + curr, 0)
RECURSIVE SumOf(_)
SumOf(fts) ==
    IF fts = <<>> THEN FromInt(0)
    ELSE NumAdd(SumOf(SubSeq(fts, 1, Len(fts) - 1)), fts[Len(fts)])

\* a variant: no filter, every frame time enters the sum
MissedTargetAll(fts) == fts
\* frameTimes.filter((frameTime) => frameTime > frameTimeTarget)
MissedTarget(fts) == SelectSeq(fts, LAMBDA ft : NumGt(ft, frameTimeTarget))

\* .reduce((acc, curr) => acc + (curr - frameTimeTarget) / frameTimeTarget, 0)
RECURSIVE Overage(_)
Overage(fts) ==
    IF fts = <<>> THEN FromInt(0)
    ELSE NumAdd(Overage(SubSeq(fts, 1, Len(fts) - 1)),
                NumDiv(NumSub(fts[Len(fts)], frameTimeTarget), frameTimeTarget))

DroppedFrames(fts) == Overage(MissedTarget(fts))

\* a variant: an empty sample reported as 0 fps instead of dividing by zero
FpsOrZero(fts) ==
    IF Len(fts) = 0 THEN FromInt(0)
    ELSE NumDiv(FromInt(1),
                NumDiv(NumDiv(SumOf(fts), FromInt(Len(fts))), FromInt(1000)))
\* avgFrameTime = sum / totalFrames / 1000; fps = 1 / avgFrameTime
Fps(fts) ==
    LET totalFrames == Len(fts)
        avgFrameTime == NumDiv(NumDiv(SumOf(fts), FromInt(totalFrames)), FromInt(1000))
    IN  NumDiv(FromInt(1), avgFrameTime)

\* a variant: the dropped weight as a share of the frame count alone
PercentDroppedOfFrames(fts) ==
    NumMul(NumDiv(DroppedFrames(fts), FromInt(Len(fts))), FromInt(100))
PercentDroppedFrames(fts) ==
    LET totalFrames == Len(fts)
        droppedFrames == DroppedFrames(fts)
    IN  NumMul(NumDiv(droppedFrames, NumAdd(FromInt(totalFrames), droppedFrames)),
               FromInt(100))

\* the second measure() call of getPerformanceMetrics(), as far as it gets
FullLoadMeasured(L1) ==
    IF MeasureThrows(L1, "create", "fullLoad") THEN {L1}
    ELSE PerfMeasure(L1, fullLoadTimeKey, "create", "fullLoad")

\* the timelines the two measure() calls of getPerformanceMetrics() may leave,
\* as far as they get
LogAfterMeasures(L) ==
    IF MeasureThrows(L, "create", "load") THEN {L}
    ELSE UNION {FullLoadMeasured(L1) :
                   L1 \in PerfMeasure(L, loadTimeKey, "create", "load")}

MetricsThrows(L) ==
    \/ MeasureThrows(L, "create", "load")
    \/ MeasureThrows(L, "create", "fullLoad")

\* getEntriesByName(key)[0].duration
FirstDuration(L, key) == GetEntriesByName(L, key)[1].duration

\* a variant: missing marks answered with zero load times instead of a failure
MetricsResultLenient(L, L2, fts) ==
    IF MetricsThrows(L)
    THEN Metrics(0, 0, Fps(fts), PercentDroppedFrames(fts), Len(fts))
    ELSE Metrics(FirstDuration(L2, loadTimeKey),
                 FirstDuration(L2, fullLoadTimeKey),
                 Fps(fts), PercentDroppedFrames(fts), Len(fts))
\* what getPerformanceMetrics() returns, called on the timeline L and having
\* left it as L2
MetricsResult(L, L2, fts) ==
    IF MetricsThrows(L) THEN Threw
    ELSE Metrics(FirstDuration(L2, loadTimeKey),
                 FirstDuration(L2, fullLoadTimeKey),
                 Fps(fts), PercentDroppedFrames(fts), Len(fts))

\* clearMetrics(): the timeline after the clearMeasures and clearMarks calls
RECURSIVE ClearMarkers(_, _)
ClearMarkers(L, i) ==
    IF i > Len(PerformanceMarkers) THEN L
    ELSE ClearMarkers(ClearMarks(L, PerformanceMarkers[i]), i + 1)

\* a variant: the measures are cleared and the marks are left
ClearedLogMeasuresOnly(L) ==
    ClearMeasures(ClearMeasures(L, loadTimeKey), fullLoadTimeKey)
\* clearMetrics(): clearMeasures for both keys, then clearMarks for each marker
ClearedLog(L) ==
    ClearMarkers(ClearMeasures(ClearMeasures(L, loadTimeKey), fullLoadTimeKey), 1)

\* --------------------------------------------------- RequestPerformance

\* constructor: this._marks
MarksFor(url) ==
    [start |-> Join(url, "start"), end |-> Join(url, "end"), measure |-> url]

\* finish(), its end mark recorded in L1: the timelines the fallback's
\* measure() may leave, L1 itself where the fallback is not taken or throws
FinishMeasured(L1, m) ==
    IF Len(GetEntriesByName(L1, m.measure)) # 0 THEN {L1}
    ELSE IF MeasureThrows(L1, m.start, m.end) THEN {L1}
    ELSE PerfMeasure(L1, m.measure, m.start, m.end)

\* finish(): the timeline after the call, as far as it gets
FinishLog(L1, L2, m) ==
    IF Len(GetEntriesByName(L1, m.measure)) # 0 THEN L1
    ELSE IF MeasureThrows(L1, m.start, m.end) THEN L1
    ELSE ClearMeasures(ClearMarks(ClearMarks(L2, m.start), m.end), m.measure)

\* finish(): resourceTimingData
FinishResult(L1, L2, m) ==
    IF Len(GetEntriesByName(L1, m.measure)) # 0
    THEN Entries(GetEntriesByName(L1, m.measure))
    ELSE IF MeasureThrows(L1, m.start, m.end) THEN Threw
    ELSE Entries(GetEntriesByName(L2, m.measure))

\* --------------------------------------------------------- LngLatBounds
\* geo/lng_lat_bounds.ts.  A LngLat object is a record [lng, lat] held in heap
\* under a reference; a LngLatBounds holds two references, _sw and _ne, or
\* NoRef where the field has never been assigned.

\* a field that was never assigned (undefined)
NoRef == 0
\* truthiness of a field: an object is truthy, undefined is not
Truthy(ref) == ref # NoRef
\* new LngLatBounds() with no arguments: neither corner assigned
NoBounds == [sw |-> NoRef, ne |-> NoRef]

\* coordinates of the points in use
Lngs == {-170, 170}
Lats == {-10, 10}
Points == [lng : Lngs, lat : Lats]

\* new LngLat(lng, lat)
NewLngLat(lng, lat) == [lng |-> lng, lat |-> lat]
\* Math.min, Math.max
MathMin(a, b) == IF a < b THEN a ELSE b
MathMax(a, b) == IF a > b THEN a ELSE b

\* what a call hands back: the heap and the bounds after it, and whether it threw
Outcome(H, b, threw) == [heap |-> H, llb |-> b, threw |-> threw]

\* the arguments of extend(): a LngLat object, a LngLatBounds (its two fields),
\* a falsy value or an object that is no array and has no lng/lat (null,
\* undefined, 0, {}, ...), or a truthy primitive (5, 'x', true)
LngLatObj(ref) == [type |-> "LngLat", sw |-> ref, ne |-> ref]
LngLatBoundsObj(sw, ne) == [type |-> "LngLatBounds", sw |-> sw, ne |-> ne]
OtherObj == [type |-> "other", sw |-> NoRef, ne |-> NoRef]
PrimitiveObj == [type |-> "primitive", sw |-> NoRef, ne |-> NoRef]

\* setSouthWest(sw), setNorthEast(ne) with a LngLat at coordinates p: a copy
SetSouthWestOn(H, b, p) ==
    Outcome(Append(H, NewLngLat(p.lng, p.lat)), [b EXCEPT !.sw = Len(H) + 1], FALSE)
SetNorthEastOn(H, b, p) ==
    Outcome(Append(H, NewLngLat(p.lng, p.lat)), [b EXCEPT !.ne = Len(H) + 1], FALSE)

\* the arguments of the constructor: absent, a LngLat at coordinates p, or an
\* array [sw, ne] of two LngLat
Absent == [type |-> "undefined"]
APoint(p) == [type |-> "LngLat", at |-> p]
APair(p, q) == [type |-> "array", items |-> <<p, q>>]

\* new LngLatBounds(sw, ne)
Construction(H, sw, ne) ==
    IF sw.type = "undefined" THEN Outcome(H, NoBounds, FALSE)
    ELSE IF ne.type # "undefined"
    THEN LET o == SetSouthWestOn(H, NoBounds, sw.at)
         IN  SetNorthEastOn(o.heap, o.llb, ne.at)
    ELSE IF sw.type = "array"
    THEN LET o == SetSouthWestOn(H, NoBounds, sw.items[1])
         IN  SetNorthEastOn(o.heap, o.llb, sw.items[2])
    ELSE Outcome(H, NoBounds, FALSE)

\* the last step of extend(), sw2 and ne2 being objects: an
\* empty bounds gets copies of them; otherwise the corner objects are updated
\* in place, one field after the other.  With exactly one corner assigned the
\* read of the other one's field throws.
ExtendCorners(H, b, sw2, ne2) ==
    IF ~Truthy(b.sw) /\ ~Truthy(b.ne)
    THEN LET H1 == Append(H, NewLngLat(H[sw2].lng, H[sw2].lat))
             H2 == Append(H1, NewLngLat(H1[ne2].lng, H1[ne2].lat))
         IN  Outcome(H2, [sw |-> Len(H) + 1, ne |-> Len(H) + 2], FALSE)
    ELSE IF ~Truthy(b.sw) THEN Outcome(H, b, TRUE)
    ELSE LET H1 == [H EXCEPT ![b.sw].lng = MathMin(H[sw2].lng, H[b.sw].lng)]
             H2 == [H1 EXCEPT ![b.sw].lat = MathMin(H1[sw2].lat, H1[b.sw].lat)]
         IN  IF ~Truthy(b.ne) THEN Outcome(H2, b, TRUE)
             ELSE LET H3 == [H2 EXCEPT ![b.ne].lng =
                                MathMax(H2[ne2].lng, H2[b.ne].lng)]
                      H4 == [H3 EXCEPT ![b.ne].lat =
                                MathMax(H3[ne2].lat, H3[b.ne].lat)]
                  IN  Outcome(H4, b, FALSE)

\* extend(obj).  On a truthy primitive the operator in of line 107 throws a
\* TypeError before anything is assigned.
ExtendObject(H, b, obj) ==
    IF obj.type = "LngLat" THEN ExtendCorners(H, b, obj.sw, obj.ne)
    ELSE IF obj.type = "LngLatBounds"
    THEN IF ~Truthy(obj.sw) \/ ~Truthy(obj.ne) THEN Outcome(H, b, FALSE)
         ELSE ExtendCorners(H, b, obj.sw, obj.ne)
    ELSE IF obj.type = "primitive" THEN Outcome(H, b, TRUE)
    ELSE Outcome(H, b, FALSE)

\* isEmpty()
IsEmptyResult(b) == ~(Truthy(b.sw) /\ Truthy(b.ne))

\* contains(lnglat), lng and lat being the coordinates of the argument
ContainsThrows(b) == ~Truthy(b.sw) \/ ~Truthy(b.ne)
ContainsResult(H, b, lng, lat) ==
    LET sw == H[b.sw]
        ne == H[b.ne]
        containsLatitude == sw.lat <= lat /\ lat <= ne.lat
        containsLongitude ==
            IF sw.lng > ne.lng THEN sw.lng >= lng /\ lng >= ne.lng
            ELSE sw.lng <= lng /\ lng <= ne.lng
    IN  containsLatitude /\ containsLongitude

\* a returned boolean; the bounds itself (return this)
Value(v) == [kind |-> "value", value |-> v]
This == [kind |-> "this"]

\* ----------------------------------------------------------------- actions

RECURSIVE SizeOver(_, _)
SizeOver(L, S) ==
    IF S = {} THEN 0
    ELSE LET x == CHOOSE y \in S : TRUE
         IN  Len(L[x]) + SizeOver(L, S \ {x})
\* the number of entries the timeline holds
Size(L) == SizeOver(L, Names)

\* the clock advances
Tick ==
    /\ now < MaxClock
    /\ now' = now + 1
    /\ UNCHANGED <<lastFrameTime, frameTimes, log, wrappers, ret, lastOp, stamps, heap, llb, hist>>

\* PerformanceUtils.mark(marker)
Mark(marker) ==
    /\ NumMarks(log) < MaxMarks
    /\ log' \in PerfMark(log, marker, now)
    /\ ret' = Undefined
    /\ lastOp' = Op("mark", 0)
    /\ UNCHANGED <<lastFrameTime, frameTimes, now, wrappers, stamps, heap, llb, hist>>

\* PerformanceUtils.frame(timestamp); cap bounds the sample
Frame(timestamp, cap) ==
    /\ Len(stamps) <= cap
    /\ frameTimes' = FrameTimesAfter(lastFrameTime, frameTimes, timestamp)
    /\ lastFrameTime' = timestamp
    /\ stamps' = Append(stamps, timestamp)
    /\ ret' = Undefined
    /\ lastOp' = Op("frame", 0)
    /\ UNCHANGED <<log, now, wrappers, heap, llb, hist>>

\* a variant of clearMetrics() that leaves the FrameTimeSample
ClearMetricsKeepsSample ==
    /\ lastFrameTime' = Null
    /\ frameTimes' = frameTimes
    /\ log' = ClearedLog(log)
    /\ stamps' = <<>>
    /\ ret' = Undefined
    /\ lastOp' = Op("clearMetrics", Size(log) - Size(ClearedLog(log)))
    /\ UNCHANGED <<now, wrappers, heap, llb, hist>>

\* PerformanceUtils.clearMetrics()
ClearMetrics ==
    /\ lastFrameTime' = Null
    /\ frameTimes' = <<>>
    /\ log' = ClearedLog(log)
    /\ stamps' = <<>>
    /\ ret' = Undefined
    /\ lastOp' = Op("clearMetrics", Size(log) - Size(ClearedLog(log)))
    /\ UNCHANGED <<now, wrappers, heap, llb, hist>>

\* a variant of getPerformanceMetrics() that empties the sample it has reported
GetPerformanceMetricsDraining ==
    /\ Len(log[loadTimeKey]) < MaxMeasures
    /\ \E L2 \in LogAfterMeasures(log) :
          log' = L2 /\ ret' = MetricsResult(log, L2, frameTimes)
    /\ lastOp' = Op("getPerformanceMetrics", 0)
    /\ frameTimes' = <<>>
    /\ UNCHANGED <<lastFrameTime, now, wrappers, stamps, heap, llb, hist>>

\* PerformanceUtils.getPerformanceMetrics()
GetPerformanceMetrics ==
    /\ Len(log[loadTimeKey]) < MaxMeasures
    /\ \E L2 \in LogAfterMeasures(log) :
          log' = L2 /\ ret' = MetricsResult(log, L2, frameTimes)
    /\ lastOp' = Op("getPerformanceMetrics", 0)
    /\ UNCHANGED <<lastFrameTime, frameTimes, now, wrappers, stamps, heap, llb, hist>>

\* new RequestPerformance(request), as instance i
Construct(i, url) ==
    /\ wrappers[i].state = "none"
    /\ \A j \in 1..(i - 1) : wrappers[j].state # "none"
    /\ wrappers' = [wrappers EXCEPT ![i] = [state |-> "started",
                                            marks |-> MarksFor(url),
                                            born |-> now,
                                            finishes |-> 0]]
    /\ log' \in PerfMark(log, MarksFor(url).start, now)
    /\ ret' = Undefined
    /\ lastOp' = Op("construct", i)
    /\ UNCHANGED <<lastFrameTime, frameTimes, now, stamps, heap, llb, hist>>

\* instance i's finish(), the first or a later one; MaxFinishes bounds the calls
Finish(i) ==
    /\ wrappers[i].state # "none"
    /\ wrappers[i].finishes < MaxFinishes
    /\ \E L1 \in PerfMark(log, wrappers[i].marks.end, now) :
          \E L2 \in FinishMeasured(L1, wrappers[i].marks) :
             /\ log' = FinishLog(L1, L2, wrappers[i].marks)
             /\ ret' = FinishResult(L1, L2, wrappers[i].marks)
    /\ wrappers' = [wrappers EXCEPT ![i].state = "finished",
                                    ![i].finishes = @ + 1]
    /\ lastOp' = Op("finish", i)
    /\ UNCHANGED <<lastFrameTime, frameTimes, now, stamps, heap, llb, hist>>

\* the host records a resource-timing entry for a fetch of url that began at start
AutoPopulate(url, start) ==
    /\ \E i \in 1..MaxWrappers :
          wrappers[i].state = "started" /\ wrappers[i].marks.measure = url
    /\ Len(SelectSeq(log[url], IsResource)) < MaxResources
    /\ log' \in Added(log, Entry("resource", url, start, now - start))
    /\ UNCHANGED <<lastFrameTime, frameTimes, now, wrappers, ret, lastOp, stamps, heap, llb, hist>>

\* The LngLatBounds calls leave the recorder, the timeline and the wrappers alone.
perf == <<lastFrameTime, frameTimes, log, now, wrappers, stamps>>

\* llb = new LngLatBounds(sw, ne)
NewLngLatBounds(sw, ne) ==
    LET o == Construction(heap, sw, ne)
    IN  /\ Len(o.heap) <= MaxObjects
        /\ heap' = o.heap
        /\ llb' = o.llb
        /\ ret' = Undefined
        /\ lastOp' = Op("new", 0)
        /\ UNCHANGED <<perf, hist>>

\* llb.setSouthWest(sw), llb.setNorthEast(ne) with a LngLat at coordinates p
SetSouthWest(p) ==
    /\ Len(heap) < MaxObjects
    /\ heap' = SetSouthWestOn(heap, llb, p).heap
    /\ llb' = SetSouthWestOn(heap, llb, p).llb
    /\ ret' = This
    /\ lastOp' = Op("setSouthWest", 0)
    /\ UNCHANGED <<perf, hist>>

SetNorthEast(p) ==
    /\ Len(heap) < MaxObjects
    /\ heap' = SetNorthEastOn(heap, llb, p).heap
    /\ llb' = SetNorthEastOn(heap, llb, p).llb
    /\ ret' = This
    /\ lastOp' = Op("setNorthEast", 0)
    /\ UNCHANGED <<perf, hist>>

\* an argument extend() takes corners from: a LngLat, or a LngLatBounds with
\* both corners assigned
Taken(obj) ==
    obj.type \in {"LngLat", "LngLatBounds"} /\ Truthy(obj.sw) /\ Truthy(obj.ne)

\* llb.extend(obj), H being the heap with the caller's argument objects in it
Extend(H, obj) ==
    LET o == ExtendObject(H, llb, obj)
    IN  /\ Taken(obj) => Len(hist) < MaxExtends
        /\ heap' = o.heap
        /\ llb' = o.llb
        /\ ret' = IF o.threw THEN Threw ELSE This
        /\ hist' = IF Taken(obj)
                   THEN Append(hist, [type |-> obj.type,
                                      sw |-> H[obj.sw], ne |-> H[obj.ne],
                                      refs |-> <<obj.sw, obj.ne>>,
                                      fresh |-> obj.sw > Len(heap)])
                   ELSE hist
        /\ lastOp' = [op |-> "extend", n |-> Len(heap), obj |-> obj]
        /\ UNCHANGED perf

\* llb.isEmpty()
IsEmpty ==
    /\ ret' = Value(IsEmptyResult(llb))
    /\ lastOp' = Op("isEmpty", 0)
    /\ UNCHANGED <<perf, heap, llb, hist>>

\* llb.contains(lnglat) with a LngLat at coordinates p
Contains(p) ==
    /\ ret' = IF ContainsThrows(llb) THEN Threw
              ELSE Value(ContainsResult(heap, llb, p.lng, p.lat))
    /\ lastOp' = [op |-> "contains", n |-> 0, obj |-> p]
    /\ UNCHANGED <<perf, heap, llb, hist>>

\* ---------------------------------------------------------- specifications

EmptyLog == [name \in Names |-> <<>>]
NoWrappers == [i \in 1..MaxWrappers |-> [state |-> "none"]]

Init ==
    /\ lastFrameTime = Null
    /\ frameTimes = <<>>
    /\ log = EmptyLog
    /\ now = 0
    /\ wrappers = NoWrappers
    /\ ret = Undefined
    /\ lastOp = Op("none", 0)
    /\ stamps = <<>>
    /\ heap = <<>>
    /\ llb = NoBounds
    /\ hist = <<>>

\* timestamps passed to frame() in Spec, ms
Timestamps == {FromInt(0), FromInt(20)}

\* The recorder: every call of PerformanceUtils, in any order, as time passes.
Next ==
    \/ Tick
    \/ \E marker \in Markers : Mark(marker)
    \/ \E timestamp \in Timestamps : Frame(timestamp, MaxFrames)
    \/ ClearMetrics
    \/ GetPerformanceMetrics

Spec == Init /\ [][Next]_vars

\* The frame statistics: the three lifecycle marks are recorded (mark(create),
\* mark(load), mark(fullLoad) at clock 0), then frames arrive and metrics are read.
InitFrames ==
    /\ lastFrameTime = Null
    /\ frameTimes = <<>>
    /\ \E L1 \in PerfMark(EmptyLog, "create", 0) :
          \E L2 \in PerfMark(L1, "load", 0) : log \in PerfMark(L2, "fullLoad", 0)
    /\ now = 0
    /\ wrappers = NoWrappers
    /\ ret = Undefined
    /\ lastOp = Op("mark", 0)
    /\ stamps = <<>>
    /\ heap = <<>>
    /\ llb = NoBounds
    /\ hist = <<>>

\* timestamps passed to frame() in SpecFrames, ms: the 60 Hz frame time 1000/60
\* and its two-decimal rounding 16.67, each with its negative and its double.
\* Three frames of exactly 16.67 need the run -16.67, 0, 16.67, 33.34 (3 * 16.67
\* is not a double), and likewise for 1000/60.
SampleTimestamps ==
    {Num(-1667, 100), Num(-50, 3), FromInt(0), Num(50, 3), Num(1667, 100),
     Num(100, 3), Num(3334, 100)}

NextFrames ==
    \/ \E timestamp \in SampleTimestamps : Frame(timestamp, MaxSample)
    \/ GetPerformanceMetrics

SpecFrames == InitFrames /\ [][NextFrames]_vars

\* a timestamp so late (2^60 ms) that the dropped weight of a frame ending at
\* it exceeds 2^53
FarTimestamp == NumMul(FromInt(1073741824), FromInt(1073741824))

\* timestamps passed to frame() in SpecSteady, ms: a steady 60 Hz run 0, 50/3,
\* 100/3, 50, 200/3, and FarTimestamp.  The differences 50 - 100/3 and
\* 200/3 - 50 round to 16.666666666666664 and 16.66666666666667, next to the
\* target 16.666666666666668 on either side.
SteadyTimestamps ==
    {FromInt(0), Num(50, 3), Num(100, 3), FromInt(50), Num(200, 3), FarTimestamp}

NextSteady ==
    \/ \E timestamp \in SteadyTimestamps : Frame(timestamp, MaxSample)
    \/ GetPerformanceMetrics

\* The frame statistics on a steady run: as SpecFrames, with SteadyTimestamps.
SpecSteady == InitFrames /\ [][NextSteady]_vars

\* Number.MAX_VALUE, the largest finite number, about 1.797e308
MaxValue == Fin(FALSE, Pow2(26) - 1, W - 1, EMax)

\* timestamps passed to frame() in SpecExtreme, ms: 0 and 50, FarTimestamp, the
\* largest finite number with its negative, and not-a-number.  A frame from
\* -MaxValue to MaxValue has the frame time Infinity, the difference being out
\* of range.
ExtremeTimestamps ==
    {FromInt(0), FromInt(50), FarTimestamp, MaxValue, NumNeg(MaxValue), NaN}

NextExtreme ==
    \/ \E timestamp \in ExtremeTimestamps : Frame(timestamp, MaxSample)
    \/ GetPerformanceMetrics

\* The frame statistics at the ends of the number range: as SpecFrames, with
\* ExtremeTimestamps.
SpecExtreme == InitFrames /\ [][NextExtreme]_vars

\* A fresh session: the recorder from the state clearMetrics() leaves when it is
\* the first call made.
InitSession ==
    /\ lastFrameTime = Null
    /\ frameTimes = <<>>
    /\ log = ClearedLog(EmptyLog)
    /\ now = 0
    /\ wrappers = NoWrappers
    /\ ret = Undefined
    /\ lastOp = Op("clearMetrics", 0)
    /\ stamps = <<>>
    /\ heap = <<>>
    /\ llb = NoBounds
    /\ hist = <<>>

SpecSession == InitSession /\ [][Next]_vars

\* The wrappers: instances are constructed and finished in any interleaving, in
\* a host that may or may not add resource-timing entries of its own.
NextWrapper ==
    \/ Tick
    \/ \E i \in 1..MaxWrappers, url \in Urls : Construct(i, url)
    \/ \E i \in 1..MaxWrappers : Finish(i)
    \/ \E url \in Urls, start \in 0..now : AutoPopulate(url, start)

SpecWrapper == Init /\ [][NextWrapper]_vars

\* A LngLatBounds from its constructor on: corners set one by one, isEmpty().
NextBounds ==
    \/ \E sw \in {Absent} \cup {APoint(p) : p \in Points}
                  \cup {APair(p, q) : p, q \in Points} :
          \E ne \in {Absent} \cup {APoint(p) : p \in Points} :
              (sw.type = "array" => ne = Absent) /\ NewLngLatBounds(sw, ne)
    \/ \E p \in Points : SetSouthWest(p)
    \/ \E p \in Points : SetNorthEast(p)
    \/ IsEmpty

SpecBounds == Init /\ [][NextBounds]_vars

\* A LngLatBounds that starts empty and is only extended.  The arguments: a
\* new LngLat; a new LngLatBounds from a south-west and a north-east point,
\* south not above north, west and east in either order (contains() reads
\* _sw.lng > _ne.lng as wrapped coordinates); an empty LngLatBounds; something
\* that is no point and no bounds, and a truthy primitive; llb itself, and its
\* own corner objects as getSouthWest() and getNorthEast() hand them out.
NextExtend ==
    \/ \E p \in Points : Extend(Append(heap, p), LngLatObj(Len(heap) + 1))
    \/ \E p, q \in Points :
          /\ p.lat <= q.lat
          /\ Extend(Append(Append(heap, p), q),
                    LngLatBoundsObj(Len(heap) + 1, Len(heap) + 2))
    \/ Extend(heap, LngLatBoundsObj(NoRef, NoRef))
    \/ Extend(heap, OtherObj)
    \/ Extend(heap, PrimitiveObj)
    \/ Extend(heap, LngLatBoundsObj(llb.sw, llb.ne))
    \/ \E ref \in {llb.sw, llb.ne} :
          Extend(heap, IF Truthy(ref) THEN LngLatObj(ref) ELSE OtherObj)
    \/ IsEmpty
    \/ \E p \in Points : Contains(p)

SpecExtend == Init /\ [][NextExtend]_vars

\* ------------------------------------------------------------------ claims

\* a and b are the same number: NaN equals nothing, and the two zeros are equal
NumEq(a, b) == ~IsNaN(a) /\ ~IsNaN(b) /\ (a = b \/ (IsZero(a) /\ IsZero(b)))

IsGet == lastOp.op = "getPerformanceMetrics"
GotMetrics == IsGet /\ ret.kind = "metrics"
AllMarked(L) == \A marker \in {"create", "load", "fullLoad"} : HasMark(L, marker)
IsEmptyRecord(r) ==
    /\ r.kind = "metrics"
    /\ r.totalFrames = 0
    /\ IsNaN(r.fps)
    /\ IsNaN(r.percentDroppedFrames)

\* C1: the FrameTimeSample is the list of consecutive differences of the
\* timestamps passed to frame() since construction or the last clearMetrics():
\* element i is timestamp i+1 minus timestamp i, there are n - 1 elements
\* after n >= 1 frame() calls and none after no call, and totalFrames reports
\* that length.
C1_FrameTimesAreDeltas ==
    /\ Len(frameTimes) = (IF stamps = <<>> THEN 0 ELSE Len(stamps) - 1)
    /\ \A i \in 1..Len(frameTimes) :
          frameTimes[i] = NumSub(stamps[i + 1], stamps[i])
    /\ GotMetrics => ret.totalFrames = (IF stamps = <<>> THEN 0 ELSE Len(stamps) - 1)

C1_Witness ==
    /\ GotMetrics
    /\ Len(stamps) = 3
    /\ stamps[1] = FromInt(0)
    /\ frameTimes = <<FromInt(20), FromInt(-20)>>
    /\ ret.totalFrames = 2

NoLifecycleEntries(L) ==
    /\ \A key \in {"loadTime", "fullLoadTime"} :
          \A i \in 1..Len(L[key]) : L[key][i].entryType # "measure"
    /\ \A marker \in {"create", "load", "fullLoad"} :
          \A i \in 1..Len(L[marker]) : L[marker][i].entryType # "mark"

\* C2: right after clearMetrics() the baseline is unset, the FrameTimeSample is
\* empty and the timeline holds no loadTime or fullLoadTime measure and no
\* create, load or fullLoad mark; the first frame() after it records no delta.
C2_ClearMetricsResets ==
    /\ lastOp.op = "clearMetrics" =>
          /\ lastFrameTime = Null
          /\ frameTimes = <<>>
          /\ NoLifecycleEntries(log)
    /\ (lastOp.op = "frame" /\ Len(stamps) = 1) => frameTimes = <<>>

\* a clearMetrics() that removed duplicate marks and duplicate measures
C2_Witness ==
    /\ lastOp.op = "clearMetrics"
    /\ lastOp.n >= 7

\* C3 as stated: getPerformanceMetrics() called right after clearMetrics()
\* returns a record with totalFrames = 0 and not-a-number fps and
\* percentDroppedFrames.
C3_Original ==
    [][(lastOp.op = "clearMetrics" /\ lastOp'.op = "getPerformanceMetrics")
          => IsEmptyRecord(ret')]_vars

\* C3 amended: after clearMetrics() and no further frame() call,
\* getPerformanceMetrics() returns totalFrames = 0 and not-a-number fps and
\* percentDroppedFrames when create, load and fullLoad have been marked again
\* since; with one of them missing, and so when called right after
\* clearMetrics(), the call fails.
C3_Amended ==
    /\ []((IsGet /\ stamps = <<>>) =>
             IF AllMarked(log) THEN IsEmptyRecord(ret) ELSE ret = Threw)
    /\ [][(lastOp.op = "clearMetrics" /\ lastOp'.op = "getPerformanceMetrics")
             => ret' = Threw]_vars

C3_Witness ==
    /\ IsGet
    /\ stamps = <<>>
    /\ IsEmptyRecord(ret)

\* C4: every getPerformanceMetrics() call made while the three marks exist
\* returns loadTime = the time from the create mark to the load mark and
\* fullLoadTime = the time from the create mark to the fullLoad mark, the
\* marks being the ones most recently recorded.
C4_LoadTimesAreCurrent ==
    GotMetrics =>
        /\ ret.loadTime =
              LastMark(log, "load").startTime - LastMark(log, "create").startTime
        /\ ret.fullLoadTime =
              LastMark(log, "fullLoad").startTime - LastMark(log, "create").startTime

\* within a tenth of 60
\* lo < x < hi
Between(x, lo, hi) == NumGt(x, lo) /\ NumGt(hi, x)
Approx60(x) == Between(x, Num(599, 10), Num(601, 10))

Rounded3 == <<Num(1667, 100), Num(1667, 100), Num(1667, 100)>>
OnTarget3 == <<Num(1000, 60), Num(1000, 60), Num(1000, 60)>>

\* C5 as stated: for the sample [16.67, 16.67, 16.67] percentDroppedFrames is 0
\* and fps is about 60.
C5_Original ==
    (GotMetrics /\ frameTimes = Rounded3) =>
        /\ NumEq(ret.percentDroppedFrames, FromInt(0))
        /\ Approx60(ret.fps)

\* C5 amended: for three frames of exactly 1000/60 ms percentDroppedFrames is 0
\* and fps is 60; for [16.67, 16.67, 16.67] fps is about 59.988, approximately
\* 60, and percentDroppedFrames is about 0.019996 (100/5001 up to rounding),
\* not 0: 16.67 exceeds 1000/60.
C5_Amended ==
    /\ (GotMetrics /\ frameTimes = OnTarget3) =>
          /\ NumEq(ret.percentDroppedFrames, FromInt(0))
          /\ NumEq(ret.fps, FromInt(60))
    /\ (GotMetrics /\ frameTimes = Rounded3) =>
          /\ Between(ret.percentDroppedFrames, Num(19995, 1000000), Num(19997, 1000000))
          /\ Between(ret.fps, Num(59987, 1000), Num(59989, 1000))
          /\ Approx60(ret.fps)

C5_Witness == GotMetrics /\ frameTimes = Rounded3

\* the target of the claims, 1000/60 ms
Target == Num(1000, 60)
\* the dropped weight D of a sample: frame by frame, (frameTime - target) /
\* target added for a frame time above the target and nothing otherwise
RECURSIVE DroppedWeight(_)
DroppedWeight(fts) ==
    IF fts = <<>> THEN FromInt(0)
    ELSE LET D == DroppedWeight(SubSeq(fts, 1, Len(fts) - 1))
             ft == fts[Len(fts)]
         IN  IF NumGt(ft, Target)
             THEN NumAdd(D, NumDiv(NumSub(ft, Target), Target))
             ELSE D

\* C6: for a non-empty sample percentDroppedFrames = D / (N + D) * 100 with N
\* the sample length and D the sum of (frameTime - target) / target over the
\* frame times strictly above target = 1000/60 ms; a sample with no frame time
\* above the target gives 0, and one frame of twice the target gives 50.
C6_PercentDropped ==
    (GotMetrics /\ Len(frameTimes) > 0) =>
        LET N == FromInt(Len(frameTimes))
            D == DroppedWeight(frameTimes)
        IN  /\ NumEq(ret.percentDroppedFrames,
                     NumMul(NumDiv(D, NumAdd(N, D)), FromInt(100)))
            /\ (\A i \in 1..Len(frameTimes) : ~NumGt(frameTimes[i], Target))
                   => NumEq(ret.percentDroppedFrames, FromInt(0))
            /\ frameTimes = <<Num(2000, 60)>>
                   => NumEq(ret.percentDroppedFrames, FromInt(50))

\* a sample with a frame at the target, one just below it and one just above it
C6_Witness ==
    /\ GotMetrics
    /\ Len(frameTimes) = 3
    /\ \E i, j, k \in 1..3 :
          /\ NumGt(frameTimes[i], Target) /\ NumGt(Num(1667, 100), frameTimes[i])
          /\ frameTimes[j] = Target
          /\ NumGt(Target, frameTimes[k]) /\ NumGt(frameTimes[k], Num(1666, 100))
    /\ NumGt(ret.percentDroppedFrames, FromInt(0))

\* C7: with an empty FrameTimeSample and the three marks recorded,
\* getPerformanceMetrics() returns a record: totalFrames = 0, fps and
\* percentDroppedFrames not-a-number, loadTime and fullLoadTime the durations of
\* measure entries of the timeline.
C7_EmptySampleIsNaN ==
    (IsGet /\ frameTimes = <<>> /\ AllMarked(log)) =>
        /\ IsEmptyRecord(ret)
        /\ \E i \in 1..Len(log["loadTime"]) :
              log["loadTime"][i].duration = ret.loadTime
        /\ \E i \in 1..Len(log["fullLoadTime"]) :
              log["fullLoadTime"][i].duration = ret.fullLoadTime

C7_Witness ==
    /\ IsGet
    /\ frameTimes = <<>>
    /\ AllMarked(log)
    /\ ret.kind = "metrics"
    /\ ret.loadTime = 1

SameStatistics(r1, r2) ==
    /\ r1.kind = r2.kind
    /\ r1.kind = "metrics" =>
          /\ r1.totalFrames = r2.totalFrames
          /\ r1.fps = r2.fps
          /\ r1.percentDroppedFrames = r2.percentDroppedFrames

\* C8: getPerformanceMetrics() leaves the FrameTimeSample and the baseline as
\* they were and changes the timeline only by adding measure entries named
\* loadTime or fullLoadTime; a call that follows another with no frame(), mark()
\* or clearMetrics() between them returns the same totalFrames, fps and
\* percentDroppedFrames.
C8_GetIsReadOnly ==
    [][lastOp'.op = "getPerformanceMetrics" =>
          /\ frameTimes' = frameTimes
          /\ lastFrameTime' = lastFrameTime
          /\ \A name \in Names :
                IF name \in {"loadTime", "fullLoadTime"}
                THEN /\ Len(log'[name]) >= Len(log[name])
                     /\ SubSeq(log'[name], 1, Len(log[name])) = log[name]
                     /\ \A i \in (Len(log[name]) + 1)..Len(log'[name]) :
                           log'[name][i].entryType = "measure"
                ELSE log'[name] = log[name]
          /\ lastOp.op = "getPerformanceMetrics" => SameStatistics(ret, ret')]_vars

\* a second call on a non-empty sample, since the last reset
C8_Witness ==
    /\ GotMetrics
    /\ Len(log["loadTime"]) = 2
    /\ Len(frameTimes) > 0

\* C9: getPerformanceMetrics() called with a create, load or fullLoad mark
\* missing fails, returning no record, and leaves the FrameTimeSample and the
\* baseline as they were.
C9_MissingMarkThrows ==
    [][(lastOp'.op = "getPerformanceMetrics" /\ ~AllMarked(log)) =>
          /\ ret' = Threw
          /\ frameTimes' = frameTimes
          /\ lastFrameTime' = lastFrameTime]_vars

\* the call failed on the second measure, fullLoad missing, with frames recorded
C9_Witness ==
    /\ IsGet
    /\ ret = Threw
    /\ HasMark(log, "create")
    /\ HasMark(log, "load")
    /\ ~HasMark(log, "fullLoad")
    /\ Len(frameTimes) > 0

\* C10: finish() never throws: the finish() call of every instance, the one
\* call its lifecycle has, returns a sequence of timing entries.
C10_FinishNeverThrows ==
    (lastOp.op = "finish" /\ wrappers[lastOp.n].finishes = 1)
        => ret.kind = "entries"

\* a step that is instance i's finish(), the first it takes
FinishStep(i) ==
    /\ wrappers[i].state = "started"
    /\ wrappers'[i].state = "finished"

\* the entries the timeline holds under the three names of marks m
Residue(L, m) ==
    Len(SelectSeq(L[m.start], IsMark)) + Len(SelectSeq(L[m.end], IsMark))
        + Len(SelectSeq(L[m.measure], IsMeasure))

\* C11: a finish() whose query for the measure name comes back empty returns
\* exactly one entry, the synthesized measure, of duration >= 0, and leaves no
\* mark under its start or end name and no measure under its measure name.
C11_FallbackReturnsOneAndCleans ==
    [][\A i \in 1..MaxWrappers :
          (FinishStep(i) /\ log[wrappers[i].marks.measure] = <<>>) =>
              /\ ret'.kind = "entries"
              /\ Len(ret'.entries) = 1
              /\ ret'.entries[1].entryType = "measure"
              /\ ret'.entries[1].duration >= 0
              /\ Residue(log', wrappers[i].marks) = 0]_vars

\* C12: a finish() that finds entries under its measure name returns exactly
\* them, changes the timeline only by adding its end mark, and so leaves its
\* start mark and its end mark in the timeline.
C12_ObservedPathKeepsMarks ==
    [][\A i \in 1..MaxWrappers :
          (FinishStep(i) /\ log[wrappers[i].marks.measure] # <<>>) =>
              LET m == wrappers[i].marks
              IN  /\ ret' = Entries(GetEntriesByName(log, m.measure))
                  /\ log' \in PerfMark(log, m.end, now)
                  /\ HasMark(log', m.start)
                  /\ HasMark(log', m.end)]_vars

\* every constructed instance has a resource identifier of its own
DistinctUrls ==
    \A i, j \in 1..MaxWrappers :
        (i # j /\ wrappers[i].state # "none" /\ wrappers[j].state # "none")
            => wrappers[i].marks.measure # wrappers[j].marks.measure

\* C13: among instances with distinct resource identifiers, a finish() does what
\* it would do alone, where the timeline holds, under its names, only its own
\* start mark (recorded at its construction) and the host's entries for its
\* resource: on host entries it returns them and leaves its start mark and its
\* end mark; on none it returns the one measure from its construction to now
\* and leaves no mark and no measure of its own.  It changes no entry under any
\* other name.
C13_DistinctWrappersIndependent ==
    [][\A i \in 1..MaxWrappers :
          (FinishStep(i) /\ DistinctUrls) =>
              LET m == wrappers[i].marks
                  born == wrappers[i].born
                  host == SelectSeq(log[m.measure], IsResource)
              IN  /\ IF host # <<>>
                     THEN /\ ret' = Entries(host)
                          /\ MarksOf(log', m.start) = <<Entry("mark", m.start, born, 0)>>
                          /\ MarksOf(log', m.end) = <<Entry("mark", m.end, now, 0)>>
                          /\ SelectSeq(log'[m.measure], IsMeasure) = <<>>
                     ELSE /\ ret' = Entries(<<Entry("measure", m.measure, born,
                                                   now - born)>>)
                          /\ Residue(log', m) = 0
                  /\ \A name \in Names \ {m.start, m.end, m.measure} :
                        log'[name] = log[name]]_vars

\* C15: the entry a finish() synthesizes has the duration from that instance's
\* own construction to this finish() call.
C15_DurationIsOwnLifetime ==
    [][\A i \in 1..MaxWrappers :
          (FinishStep(i) /\ ret'.kind = "entries"
              /\ log[wrappers[i].marks.measure] = <<>>) =>
              ret'.entries[1].duration = now - wrappers[i].born]_vars

\* 2^53: from here on adding 1 to a number need not change it
TwoTo53 == NumMul(FromInt(8388608), FromInt(1073741824))

\* C16 as stated: with a non-empty FrameTimeSample the percentDroppedFrames of
\* the returned record is a number p with 0 <= p < 100, whatever the frame()
\* timestamps.
C16_Original ==
    (GotMetrics /\ Len(frameTimes) > 0) =>
        /\ ~IsNaN(ret.percentDroppedFrames)
        /\ ~NumGt(FromInt(0), ret.percentDroppedFrames)
        /\ NumGt(FromInt(100), ret.percentDroppedFrames)

\* C16 amended: with a non-empty FrameTimeSample the dropped weight D is never
\* negative and never not-a-number, whatever the frame() timestamps.  While D
\* is finite percentDroppedFrames is a number p with 0 <= p <= 100: p < 100
\* while D is below 2^53, and p is exactly 100 once D is so large that the sum
\* N + D rounds to D.  Once D has overflowed to Infinity percentDroppedFrames is
\* not-a-number.
C16_Amended ==
    (GotMetrics /\ Len(frameTimes) > 0) =>
        LET N == FromInt(Len(frameTimes))
            D == DroppedWeight(frameTimes)
            p == ret.percentDroppedFrames
        IN  /\ ~IsNaN(D)
            /\ ~NumGt(FromInt(0), D)
            /\ IF D = Infinity THEN IsNaN(p)
               ELSE /\ IsFinite(p)
                    /\ ~NumGt(FromInt(0), p)
                    /\ ~NumGt(p, FromInt(100))
                    /\ NumGt(TwoTo53, D) => NumGt(FromInt(100), p)
                    /\ NumEq(NumAdd(N, D), D) => NumEq(p, FromInt(100))

\* finite timestamps whose difference is out of range: the frame time and the
\* dropped weight are Infinity and percentDroppedFrames is not-a-number
C16_Witness ==
    /\ GotMetrics
    /\ \A i \in 1..Len(stamps) : IsFinite(stamps[i])
    /\ DroppedWeight(frameTimes) = Infinity
    /\ IsNaN(ret.percentDroppedFrames)

\* both corners of llb are assigned
BothSet == Truthy(llb.sw) /\ Truthy(llb.ne)

\* C14: isEmpty() returns true exactly when the bounds have been defined, both
\* corners set.
C14_IsEmptyWhenDefined ==
    lastOp.op = "isEmpty" => ret = Value(BothSet)

HistSet == {hist[k] : k \in 1..Len(hist)}
SetMin(S) == CHOOSE x \in S : \A y \in S : x <= y
SetMax(S) == CHOOSE x \in S : \A y \in S : x >= y

\* the corners of llb are the minimum and the maximum of every coordinate taken
CornersAreExtremesOfAll ==
    hist # <<>> =>
        /\ BothSet
        /\ heap[llb.sw] =
              NewLngLat(SetMin(UNION {{e.sw.lng, e.ne.lng} : e \in HistSet}),
                        SetMin(UNION {{e.sw.lat, e.ne.lat} : e \in HistSet}))
        /\ heap[llb.ne] =
              NewLngLat(SetMax(UNION {{e.sw.lng, e.ne.lng} : e \in HistSet}),
                        SetMax(UNION {{e.sw.lat, e.ne.lat} : e \in HistSet}))

\* once something is taken, isEmpty() is false and contains(p) is true for
\* every point p taken
ExtendedPointsInside ==
    hist # <<>> =>
        /\ ~IsEmptyResult(llb)
        /\ lastOp.op = "isEmpty" => ret = Value(FALSE)
        /\ \A e \in HistSet :
              e.type = "LngLat" =>
                  /\ ~ContainsThrows(llb)
                  /\ ContainsResult(heap, llb, e.sw.lng, e.sw.lat)
                  /\ (lastOp.op = "contains" /\ lastOp.obj = e.sw)
                        => ret = Value(TRUE)

\* the objects callers made and passed still have the coordinates they came with
ArgumentsKept ==
    \A e \in HistSet :
        e.fresh => heap[e.refs[1]] = e.sw /\ heap[e.refs[2]] = e.ne

\* an extend() step leaves its argument as it was, llb's own objects included
ArgumentUntouched ==
    lastOp'.op = "extend" =>
        \A ref \in {lastOp'.obj.sw, lastOp'.obj.ne} :
            (Truthy(ref) /\ ref <= Len(heap)) => heap'[ref] = heap[ref]

\* extend() with an empty LngLatBounds changes nothing and returns the bounds
EmptyArgumentChangesNothing ==
    (/\ lastOp'.op = "extend"
     /\ lastOp'.obj.type = "LngLatBounds"
     /\ ~Taken(lastOp'.obj)) =>
        /\ heap' = heap
        /\ llb' = llb
        /\ ret' = This

\* C17: from an empty bounds, after extend() calls with points and
\* non-empty bounds, the corners are the minimum and maximum of all coordinates
\* extended, isEmpty() is false, contains(p) holds for every extended point p,
\* an empty bounds argument changes nothing, and no argument is modified.
C17_ExtendKeepsExtremes ==
    [][/\ CornersAreExtremesOfAll'
       /\ ExtendedPointsInside'
       /\ ArgumentsKept'
       /\ ArgumentUntouched
       /\ EmptyArgumentChangesNothing]_vars

=============================================================================
